---- MODULE Spec2Model ----
(***************************************************************************)
(* Model of the feed aggregator fetch_feeds.py: load_feeds, the            *)
(* per-locator loop of main() with its staleness test, per-feed cap, link  *)
(* dedup, error isolation, final sort, global cap and the writing of the   *)
(* two documents, and the helpers pick_date, date_to_str, clean_summary    *)
(* and extract_image.                                                      *)
(*                                                                         *)
(* Python strings are sequences of one-character strings, so that strip,   *)
(* lower, replace, split, slicing and lexicographic comparison are         *)
(* computed and not assumed. A character that is no printable ASCII        *)
(* character is written by its code point, "U+00A0"; tab, line feed,       *)
(* carriage return and form feed are written with their escapes, and the   *)
(* backquote is "U+0060".                                                  *)
(***************************************************************************)
EXTENDS Integers, Sequences, FiniteSets, TLC

\* ------------------------------------------------------------------ text

\* The element of a one-element set. The(F(v) : v \in {e}) computes e once
\* and hands F its value.
The(S) == CHOOSE x \in S : TRUE

RECURSIVE Concat(_)
Concat(pieces) == IF pieces = <<>> THEN <<>> ELSE Head(pieces) \o Concat(Tail(pieces))

\* The character U+2026 appended by clean_summary.
Ellipsis == "U+2026"

\* The name of the character with code point n: a printable ASCII character
\* stands for itself, tab, line feed, form feed and carriage return are
\* written with their escapes, and every other character, the backquote
\* included, is "U+" and its code point in at least four hexadecimal
\* digits.
HexDigits ==
    <<"0", "1", "2", "3", "4", "5", "6", "7", "8", "9", "A", "B", "C", "D", "E", "F">>

RECURSIVE Hex(_, _)
Hex(n, width) ==
    IF n = 0 /\ width <= 0 THEN ""
    ELSE Hex(n \div 16, width - 1) \o HexDigits[(n % 16) + 1]

\* The characters U+0020 ... U+007E.
Printable ==
    <<" ", "!", "\"", "#", "$", "%", "&", "'", "(", ")", "*", "+", ",", "-",
      ".", "/", "0", "1", "2", "3", "4", "5", "6", "7", "8", "9", ":", ";",
      "<", "=", ">", "?", "@", "A", "B", "C", "D", "E", "F", "G", "H", "I",
      "J", "K", "L", "M", "N", "O", "P", "Q", "R", "S", "T", "U", "V", "W",
      "X", "Y", "Z", "[", "\\", "]", "^", "_", "U+0060", "a", "b", "c", "d",
      "e", "f", "g", "h", "i", "j", "k", "l", "m", "n", "o", "p", "q", "r",
      "s", "t", "u", "v", "w", "x", "y", "z", "{", "|", "}", "~">>

Chr(n) ==
    IF n = 9 THEN "\t"
    ELSE IF n = 10 THEN "\n"
    ELSE IF n = 12 THEN "\f"
    ELSE IF n = 13 THEN "\r"
    ELSE IF n >= 32 /\ n <= 126 /\ n # 96 THEN Printable[n - 31]
    ELSE "U+" \o Hex(n, 4)

\* The characters of the ranges <<first, last>> of code points.
CharsOf(ranges) ==
    UNION {{Chr(n) : n \in ranges[k][1]..ranges[k][2]} : k \in 1..Len(ranges)}

\* The characters str.strip() and str.split() treat as whitespace: every
\* character of Unicode for which str.isspace() holds.
SpaceCodes ==
    {9, 10, 11, 12, 13, 28, 29, 30, 31, 32, 133, 160, 5760, 8192, 8193,
     8194, 8195, 8196, 8197, 8198, 8199, 8200, 8201, 8202, 8232, 8233, 8239,
     8287, 12288}

SpaceChars == {Chr(n) : n \in SpaceCodes}

IsSpace(c) == c \in SpaceChars

\* str.lower() over the whole of Unicode (the character database of the
\* Python this build runs, 3.11). Each run <<first, last, step, delta>>
\* says that the characters first, first + step, ..., last become the
\* character delta code points further. U+0130 becomes two characters and
\* capital sigma U+03A3 is handled apart; every other character is left as
\* it is.
LowerRuns ==
    <<<<65, 90, 1, 32>>, <<192, 214, 1, 32>>, <<216, 222, 1, 32>>, <<256,
      302, 2, 1>>, <<306, 310, 2, 1>>, <<313, 327, 2, 1>>, <<330, 374, 2,
      1>>, <<376, 376, 1, -121>>, <<377, 381, 2, 1>>, <<385, 385, 1, 210>>,
      <<386, 388, 2, 1>>, <<390, 390, 1, 206>>, <<391, 391, 1, 1>>, <<393,
      394, 1, 205>>, <<395, 395, 1, 1>>, <<398, 398, 1, 79>>, <<399, 399, 1,
      202>>, <<400, 400, 1, 203>>, <<401, 401, 1, 1>>, <<403, 403, 1, 205>>,
      <<404, 404, 1, 207>>, <<406, 406, 1, 211>>, <<407, 407, 1, 209>>,
      <<408, 408, 1, 1>>, <<412, 412, 1, 211>>, <<413, 413, 1, 213>>, <<415,
      415, 1, 214>>, <<416, 420, 2, 1>>, <<422, 422, 1, 218>>, <<423, 423,
      1, 1>>, <<425, 425, 1, 218>>, <<428, 428, 1, 1>>, <<430, 430, 1,
      218>>, <<431, 431, 1, 1>>, <<433, 434, 1, 217>>, <<435, 437, 2, 1>>,
      <<439, 439, 1, 219>>, <<440, 440, 1, 1>>, <<444, 444, 1, 1>>, <<452,
      452, 1, 2>>, <<453, 453, 1, 1>>, <<455, 455, 1, 2>>, <<456, 456, 1,
      1>>, <<458, 458, 1, 2>>, <<459, 475, 2, 1>>, <<478, 494, 2, 1>>,
      <<497, 497, 1, 2>>, <<498, 500, 2, 1>>, <<502, 502, 1, -97>>, <<503,
      503, 1, -56>>, <<504, 542, 2, 1>>, <<544, 544, 1, -130>>, <<546, 562,
      2, 1>>, <<570, 570, 1, 10795>>, <<571, 571, 1, 1>>, <<573, 573, 1,
      -163>>, <<574, 574, 1, 10792>>, <<577, 577, 1, 1>>, <<579, 579, 1,
      -195>>, <<580, 580, 1, 69>>, <<581, 581, 1, 71>>, <<582, 590, 2, 1>>,
      <<880, 882, 2, 1>>, <<886, 886, 1, 1>>, <<895, 895, 1, 116>>, <<902,
      902, 1, 38>>, <<904, 906, 1, 37>>, <<908, 908, 1, 64>>, <<910, 911, 1,
      63>>, <<913, 929, 1, 32>>, <<932, 939, 1, 32>>, <<975, 975, 1, 8>>,
      <<984, 1006, 2, 1>>, <<1012, 1012, 1, -60>>, <<1015, 1015, 1, 1>>,
      <<1017, 1017, 1, -7>>, <<1018, 1018, 1, 1>>, <<1021, 1023, 1, -130>>,
      <<1024, 1039, 1, 80>>, <<1040, 1071, 1, 32>>, <<1120, 1152, 2, 1>>,
      <<1162, 1214, 2, 1>>, <<1216, 1216, 1, 15>>, <<1217, 1229, 2, 1>>,
      <<1232, 1326, 2, 1>>, <<1329, 1366, 1, 48>>, <<4256, 4293, 1, 7264>>,
      <<4295, 4295, 1, 7264>>, <<4301, 4301, 1, 7264>>, <<5024, 5103, 1,
      38864>>, <<5104, 5109, 1, 8>>, <<7312, 7354, 1, -3008>>, <<7357, 7359,
      1, -3008>>, <<7680, 7828, 2, 1>>, <<7838, 7838, 1, -7615>>, <<7840,
      7934, 2, 1>>, <<7944, 7951, 1, -8>>, <<7960, 7965, 1, -8>>, <<7976,
      7983, 1, -8>>, <<7992, 7999, 1, -8>>, <<8008, 8013, 1, -8>>, <<8025,
      8031, 2, -8>>, <<8040, 8047, 1, -8>>, <<8072, 8079, 1, -8>>, <<8088,
      8095, 1, -8>>, <<8104, 8111, 1, -8>>, <<8120, 8121, 1, -8>>, <<8122,
      8123, 1, -74>>, <<8124, 8124, 1, -9>>, <<8136, 8139, 1, -86>>, <<8140,
      8140, 1, -9>>, <<8152, 8153, 1, -8>>, <<8154, 8155, 1, -100>>, <<8168,
      8169, 1, -8>>, <<8170, 8171, 1, -112>>, <<8172, 8172, 1, -7>>, <<8184,
      8185, 1, -128>>, <<8186, 8187, 1, -126>>, <<8188, 8188, 1, -9>>,
      <<8486, 8486, 1, -7517>>, <<8490, 8490, 1, -8383>>, <<8491, 8491, 1,
      -8262>>, <<8498, 8498, 1, 28>>, <<8544, 8559, 1, 16>>, <<8579, 8579,
      1, 1>>, <<9398, 9423, 1, 26>>, <<11264, 11311, 1, 48>>, <<11360,
      11360, 1, 1>>, <<11362, 11362, 1, -10743>>, <<11363, 11363, 1,
      -3814>>, <<11364, 11364, 1, -10727>>, <<11367, 11371, 2, 1>>, <<11373,
      11373, 1, -10780>>, <<11374, 11374, 1, -10749>>, <<11375, 11375, 1,
      -10783>>, <<11376, 11376, 1, -10782>>, <<11378, 11378, 1, 1>>,
      <<11381, 11381, 1, 1>>, <<11390, 11391, 1, -10815>>, <<11392, 11490,
      2, 1>>, <<11499, 11501, 2, 1>>, <<11506, 11506, 1, 1>>, <<42560,
      42604, 2, 1>>, <<42624, 42650, 2, 1>>, <<42786, 42798, 2, 1>>,
      <<42802, 42862, 2, 1>>, <<42873, 42875, 2, 1>>, <<42877, 42877, 1,
      -35332>>, <<42878, 42886, 2, 1>>, <<42891, 42891, 1, 1>>, <<42893,
      42893, 1, -42280>>, <<42896, 42898, 2, 1>>, <<42902, 42920, 2, 1>>,
      <<42922, 42922, 1, -42308>>, <<42923, 42923, 1, -42319>>, <<42924,
      42924, 1, -42315>>, <<42925, 42925, 1, -42305>>, <<42926, 42926, 1,
      -42308>>, <<42928, 42928, 1, -42258>>, <<42929, 42929, 1, -42282>>,
      <<42930, 42930, 1, -42261>>, <<42931, 42931, 1, 928>>, <<42932, 42946,
      2, 1>>, <<42948, 42948, 1, -48>>, <<42949, 42949, 1, -42307>>,
      <<42950, 42950, 1, -35384>>, <<42951, 42953, 2, 1>>, <<42960, 42960,
      1, 1>>, <<42966, 42968, 2, 1>>, <<42997, 42997, 1, 1>>, <<65313,
      65338, 1, 32>>, <<66560, 66599, 1, 40>>, <<66736, 66771, 1, 40>>,
      <<66928, 66938, 1, 39>>, <<66940, 66954, 1, 39>>, <<66956, 66962, 1,
      39>>, <<66964, 66965, 1, 39>>, <<68736, 68786, 1, 64>>, <<71840,
      71871, 1, 32>>, <<93760, 93791, 1, 32>>, <<125184, 125217, 1, 34>>>>

\* The cased characters that are not case-ignorable, as ranges of code
\* points.
CasedRanges ==
    <<<<65, 90>>, <<97, 122>>, <<170, 170>>, <<181, 181>>, <<186, 186>>,
      <<192, 214>>, <<216, 246>>, <<248, 442>>, <<444, 447>>, <<452, 659>>,
      <<661, 687>>, <<880, 883>>, <<886, 887>>, <<891, 893>>, <<895, 895>>,
      <<902, 902>>, <<904, 906>>, <<908, 908>>, <<910, 929>>, <<931, 1013>>,
      <<1015, 1153>>, <<1162, 1327>>, <<1329, 1366>>, <<1376, 1416>>,
      <<4256, 4293>>, <<4295, 4295>>, <<4301, 4301>>, <<4304, 4346>>,
      <<4349, 4351>>, <<5024, 5109>>, <<5112, 5117>>, <<7296, 7304>>,
      <<7312, 7354>>, <<7357, 7359>>, <<7424, 7467>>, <<7531, 7543>>,
      <<7545, 7578>>, <<7680, 7957>>, <<7960, 7965>>, <<7968, 8005>>,
      <<8008, 8013>>, <<8016, 8023>>, <<8025, 8025>>, <<8027, 8027>>,
      <<8029, 8029>>, <<8031, 8061>>, <<8064, 8116>>, <<8118, 8124>>,
      <<8126, 8126>>, <<8130, 8132>>, <<8134, 8140>>, <<8144, 8147>>,
      <<8150, 8155>>, <<8160, 8172>>, <<8178, 8180>>, <<8182, 8188>>,
      <<8450, 8450>>, <<8455, 8455>>, <<8458, 8467>>, <<8469, 8469>>,
      <<8473, 8477>>, <<8484, 8484>>, <<8486, 8486>>, <<8488, 8488>>,
      <<8490, 8493>>, <<8495, 8500>>, <<8505, 8505>>, <<8508, 8511>>,
      <<8517, 8521>>, <<8526, 8526>>, <<8544, 8575>>, <<8579, 8580>>,
      <<9398, 9449>>, <<11264, 11387>>, <<11390, 11492>>, <<11499, 11502>>,
      <<11506, 11507>>, <<11520, 11557>>, <<11559, 11559>>, <<11565,
      11565>>, <<42560, 42605>>, <<42624, 42651>>, <<42786, 42863>>,
      <<42865, 42887>>, <<42891, 42894>>, <<42896, 42954>>, <<42960,
      42961>>, <<42963, 42963>>, <<42965, 42969>>, <<42997, 42998>>,
      <<43002, 43002>>, <<43824, 43866>>, <<43872, 43880>>, <<43888,
      43967>>, <<64256, 64262>>, <<64275, 64279>>, <<65313, 65338>>,
      <<65345, 65370>>, <<66560, 66639>>, <<66736, 66771>>, <<66776,
      66811>>, <<66928, 66938>>, <<66940, 66954>>, <<66956, 66962>>,
      <<66964, 66965>>, <<66967, 66977>>, <<66979, 66993>>, <<66995,
      67001>>, <<67003, 67004>>, <<68736, 68786>>, <<68800, 68850>>,
      <<71840, 71903>>, <<93760, 93823>>, <<119808, 119892>>, <<119894,
      119964>>, <<119966, 119967>>, <<119970, 119970>>, <<119973, 119974>>,
      <<119977, 119980>>, <<119982, 119993>>, <<119995, 119995>>, <<119997,
      120003>>, <<120005, 120069>>, <<120071, 120074>>, <<120077, 120084>>,
      <<120086, 120092>>, <<120094, 120121>>, <<120123, 120126>>, <<120128,
      120132>>, <<120134, 120134>>, <<120138, 120144>>, <<120146, 120485>>,
      <<120488, 120512>>, <<120514, 120538>>, <<120540, 120570>>, <<120572,
      120596>>, <<120598, 120628>>, <<120630, 120654>>, <<120656, 120686>>,
      <<120688, 120712>>, <<120714, 120744>>, <<120746, 120770>>, <<120772,
      120779>>, <<122624, 122633>>, <<122635, 122654>>, <<125184, 125251>>,
      <<127280, 127305>>, <<127312, 127337>>, <<127344, 127369>>>>

CasedChars == CharsOf(CasedRanges)

\* The case-ignorable characters, as ranges of code points.
CaseIgnorableRanges ==
    <<<<39, 39>>, <<46, 46>>, <<58, 58>>, <<94, 94>>, <<96, 96>>, <<168,
      168>>, <<173, 173>>, <<175, 175>>, <<180, 180>>, <<183, 184>>, <<688,
      879>>, <<884, 885>>, <<890, 890>>, <<900, 901>>, <<903, 903>>, <<1155,
      1161>>, <<1369, 1369>>, <<1375, 1375>>, <<1425, 1469>>, <<1471,
      1471>>, <<1473, 1474>>, <<1476, 1477>>, <<1479, 1479>>, <<1524,
      1524>>, <<1536, 1541>>, <<1552, 1562>>, <<1564, 1564>>, <<1600,
      1600>>, <<1611, 1631>>, <<1648, 1648>>, <<1750, 1757>>, <<1759,
      1768>>, <<1770, 1773>>, <<1807, 1807>>, <<1809, 1809>>, <<1840,
      1866>>, <<1958, 1968>>, <<2027, 2037>>, <<2042, 2042>>, <<2045,
      2045>>, <<2070, 2093>>, <<2137, 2139>>, <<2184, 2184>>, <<2192,
      2193>>, <<2200, 2207>>, <<2249, 2306>>, <<2362, 2362>>, <<2364,
      2364>>, <<2369, 2376>>, <<2381, 2381>>, <<2385, 2391>>, <<2402,
      2403>>, <<2417, 2417>>, <<2433, 2433>>, <<2492, 2492>>, <<2497,
      2500>>, <<2509, 2509>>, <<2530, 2531>>, <<2558, 2558>>, <<2561,
      2562>>, <<2620, 2620>>, <<2625, 2626>>, <<2631, 2632>>, <<2635,
      2637>>, <<2641, 2641>>, <<2672, 2673>>, <<2677, 2677>>, <<2689,
      2690>>, <<2748, 2748>>, <<2753, 2757>>, <<2759, 2760>>, <<2765,
      2765>>, <<2786, 2787>>, <<2810, 2815>>, <<2817, 2817>>, <<2876,
      2876>>, <<2879, 2879>>, <<2881, 2884>>, <<2893, 2893>>, <<2901,
      2902>>, <<2914, 2915>>, <<2946, 2946>>, <<3008, 3008>>, <<3021,
      3021>>, <<3072, 3072>>, <<3076, 3076>>, <<3132, 3132>>, <<3134,
      3136>>, <<3142, 3144>>, <<3146, 3149>>, <<3157, 3158>>, <<3170,
      3171>>, <<3201, 3201>>, <<3260, 3260>>, <<3263, 3263>>, <<3270,
      3270>>, <<3276, 3277>>, <<3298, 3299>>, <<3328, 3329>>, <<3387,
      3388>>, <<3393, 3396>>, <<3405, 3405>>, <<3426, 3427>>, <<3457,
      3457>>, <<3530, 3530>>, <<3538, 3540>>, <<3542, 3542>>, <<3633,
      3633>>, <<3636, 3642>>, <<3654, 3662>>, <<3761, 3761>>, <<3764,
      3772>>, <<3782, 3782>>, <<3784, 3789>>, <<3864, 3865>>, <<3893,
      3893>>, <<3895, 3895>>, <<3897, 3897>>, <<3953, 3966>>, <<3968,
      3972>>, <<3974, 3975>>, <<3981, 3991>>, <<3993, 4028>>, <<4038,
      4038>>, <<4141, 4144>>, <<4146, 4151>>, <<4153, 4154>>, <<4157,
      4158>>, <<4184, 4185>>, <<4190, 4192>>, <<4209, 4212>>, <<4226,
      4226>>, <<4229, 4230>>, <<4237, 4237>>, <<4253, 4253>>, <<4348,
      4348>>, <<4957, 4959>>, <<5906, 5908>>, <<5938, 5939>>, <<5970,
      5971>>, <<6002, 6003>>, <<6068, 6069>>, <<6071, 6077>>, <<6086,
      6086>>, <<6089, 6099>>, <<6103, 6103>>, <<6109, 6109>>, <<6155,
      6159>>, <<6211, 6211>>, <<6277, 6278>>, <<6313, 6313>>, <<6432,
      6434>>, <<6439, 6440>>, <<6450, 6450>>, <<6457, 6459>>, <<6679,
      6680>>, <<6683, 6683>>, <<6742, 6742>>, <<6744, 6750>>, <<6752,
      6752>>, <<6754, 6754>>, <<6757, 6764>>, <<6771, 6780>>, <<6783,
      6783>>, <<6823, 6823>>, <<6832, 6862>>, <<6912, 6915>>, <<6964,
      6964>>, <<6966, 6970>>, <<6972, 6972>>, <<6978, 6978>>, <<7019,
      7027>>, <<7040, 7041>>, <<7074, 7077>>, <<7080, 7081>>, <<7083,
      7085>>, <<7142, 7142>>, <<7144, 7145>>, <<7149, 7149>>, <<7151,
      7153>>, <<7212, 7219>>, <<7222, 7223>>, <<7288, 7293>>, <<7376,
      7378>>, <<7380, 7392>>, <<7394, 7400>>, <<7405, 7405>>, <<7412,
      7412>>, <<7416, 7417>>, <<7468, 7530>>, <<7544, 7544>>, <<7579,
      7679>>, <<8125, 8125>>, <<8127, 8129>>, <<8141, 8143>>, <<8157,
      8159>>, <<8173, 8175>>, <<8189, 8190>>, <<8203, 8207>>, <<8216,
      8217>>, <<8228, 8228>>, <<8231, 8231>>, <<8234, 8238>>, <<8288,
      8292>>, <<8294, 8303>>, <<8305, 8305>>, <<8319, 8319>>, <<8336,
      8348>>, <<8400, 8432>>, <<11388, 11389>>, <<11503, 11505>>, <<11631,
      11631>>, <<11647, 11647>>, <<11744, 11775>>, <<11823, 11823>>,
      <<12293, 12293>>, <<12330, 12333>>, <<12337, 12341>>, <<12347,
      12347>>, <<12441, 12446>>, <<12540, 12542>>, <<40981, 40981>>,
      <<42232, 42237>>, <<42508, 42508>>, <<42607, 42610>>, <<42612,
      42621>>, <<42623, 42623>>, <<42652, 42655>>, <<42736, 42737>>,
      <<42752, 42785>>, <<42864, 42864>>, <<42888, 42890>>, <<42994,
      42996>>, <<43000, 43001>>, <<43010, 43010>>, <<43014, 43014>>,
      <<43019, 43019>>, <<43045, 43046>>, <<43052, 43052>>, <<43204,
      43205>>, <<43232, 43249>>, <<43263, 43263>>, <<43302, 43309>>,
      <<43335, 43345>>, <<43392, 43394>>, <<43443, 43443>>, <<43446,
      43449>>, <<43452, 43453>>, <<43471, 43471>>, <<43493, 43494>>,
      <<43561, 43566>>, <<43569, 43570>>, <<43573, 43574>>, <<43587,
      43587>>, <<43596, 43596>>, <<43632, 43632>>, <<43644, 43644>>,
      <<43696, 43696>>, <<43698, 43700>>, <<43703, 43704>>, <<43710,
      43711>>, <<43713, 43713>>, <<43741, 43741>>, <<43756, 43757>>,
      <<43763, 43764>>, <<43766, 43766>>, <<43867, 43871>>, <<43881,
      43883>>, <<44005, 44005>>, <<44008, 44008>>, <<44013, 44013>>,
      <<64286, 64286>>, <<64434, 64450>>, <<65024, 65039>>, <<65043,
      65043>>, <<65056, 65071>>, <<65106, 65106>>, <<65109, 65109>>,
      <<65279, 65279>>, <<65287, 65287>>, <<65294, 65294>>, <<65306,
      65306>>, <<65342, 65342>>, <<65344, 65344>>, <<65392, 65392>>,
      <<65438, 65439>>, <<65507, 65507>>, <<65529, 65531>>, <<66045,
      66045>>, <<66272, 66272>>, <<66422, 66426>>, <<67456, 67461>>,
      <<67463, 67504>>, <<67506, 67514>>, <<68097, 68099>>, <<68101,
      68102>>, <<68108, 68111>>, <<68152, 68154>>, <<68159, 68159>>,
      <<68325, 68326>>, <<68900, 68903>>, <<69291, 69292>>, <<69446,
      69456>>, <<69506, 69509>>, <<69633, 69633>>, <<69688, 69702>>,
      <<69744, 69744>>, <<69747, 69748>>, <<69759, 69761>>, <<69811,
      69814>>, <<69817, 69818>>, <<69821, 69821>>, <<69826, 69826>>,
      <<69837, 69837>>, <<69888, 69890>>, <<69927, 69931>>, <<69933,
      69940>>, <<70003, 70003>>, <<70016, 70017>>, <<70070, 70078>>,
      <<70089, 70092>>, <<70095, 70095>>, <<70191, 70193>>, <<70196,
      70196>>, <<70198, 70199>>, <<70206, 70206>>, <<70367, 70367>>,
      <<70371, 70378>>, <<70400, 70401>>, <<70459, 70460>>, <<70464,
      70464>>, <<70502, 70508>>, <<70512, 70516>>, <<70712, 70719>>,
      <<70722, 70724>>, <<70726, 70726>>, <<70750, 70750>>, <<70835,
      70840>>, <<70842, 70842>>, <<70847, 70848>>, <<70850, 70851>>,
      <<71090, 71093>>, <<71100, 71101>>, <<71103, 71104>>, <<71132,
      71133>>, <<71219, 71226>>, <<71229, 71229>>, <<71231, 71232>>,
      <<71339, 71339>>, <<71341, 71341>>, <<71344, 71349>>, <<71351,
      71351>>, <<71453, 71455>>, <<71458, 71461>>, <<71463, 71467>>,
      <<71727, 71735>>, <<71737, 71738>>, <<71995, 71996>>, <<71998,
      71998>>, <<72003, 72003>>, <<72148, 72151>>, <<72154, 72155>>,
      <<72160, 72160>>, <<72193, 72202>>, <<72243, 72248>>, <<72251,
      72254>>, <<72263, 72263>>, <<72273, 72278>>, <<72281, 72283>>,
      <<72330, 72342>>, <<72344, 72345>>, <<72752, 72758>>, <<72760,
      72765>>, <<72767, 72767>>, <<72850, 72871>>, <<72874, 72880>>,
      <<72882, 72883>>, <<72885, 72886>>, <<73009, 73014>>, <<73018,
      73018>>, <<73020, 73021>>, <<73023, 73029>>, <<73031, 73031>>,
      <<73104, 73105>>, <<73109, 73109>>, <<73111, 73111>>, <<73459,
      73460>>, <<78896, 78904>>, <<92912, 92916>>, <<92976, 92982>>,
      <<92992, 92995>>, <<94031, 94031>>, <<94095, 94111>>, <<94176,
      94177>>, <<94179, 94180>>, <<110576, 110579>>, <<110581, 110587>>,
      <<110589, 110590>>, <<113821, 113822>>, <<113824, 113827>>, <<118528,
      118573>>, <<118576, 118598>>, <<119143, 119145>>, <<119155, 119170>>,
      <<119173, 119179>>, <<119210, 119213>>, <<119362, 119364>>, <<121344,
      121398>>, <<121403, 121452>>, <<121461, 121461>>, <<121476, 121476>>,
      <<121499, 121503>>, <<121505, 121519>>, <<122880, 122886>>, <<122888,
      122904>>, <<122907, 122913>>, <<122915, 122916>>, <<122918, 122922>>,
      <<123184, 123197>>, <<123566, 123566>>, <<123628, 123631>>, <<125136,
      125142>>, <<125252, 125259>>, <<127995, 127999>>, <<917505, 917505>>,
      <<917536, 917631>>, <<917760, 917999>>>>

CaseIgnorableChars == CharsOf(CaseIgnorableRanges)

\* The lone surrogates U+D800 ... U+DFFF, which a Python string can hold
\* and the utf-8 codec cannot write.
SurrogateChars == {Chr(n) : n \in 55296..57343}

LowerPairs ==
    UNION {{<<Chr(n), <<Chr(n + LowerRuns[k][4])>>>>
            : n \in {m \in LowerRuns[k][1]..LowerRuns[k][2]
                        : (m - LowerRuns[k][1]) % LowerRuns[k][3] = 0}}
           : k \in 1..Len(LowerRuns)}
      \cup {<<Chr(304), <<"i", Chr(775)>>>>}

LowerMap ==
    [c \in {p[1] : p \in LowerPairs} |-> (CHOOSE p \in LowerPairs : p[1] = c)[2]]

\* What str.lower() makes of one character other than capital sigma.
LowerChar(c) == IF c \in DOMAIN LowerMap THEN LowerMap[c] ELSE <<c>>

Sigma == "U+03A3"
SmallSigma == "U+03C3"
FinalSmallSigma == "U+03C2"

\* Capital sigma becomes the final small sigma when the nearest character
\* before it that is not case-ignorable is cased and the nearest such
\* character after it, if any, is not cased.
FinalSigma(v, i) ==
    /\ \E j \in 1..(i - 1) :
          /\ v[j] \in CasedChars
          /\ \A h \in (j + 1)..(i - 1) : v[h] \in CaseIgnorableChars
    /\ ~\E j \in (i + 1)..Len(v) :
          /\ v[j] \in CasedChars
          /\ \A h \in (i + 1)..(j - 1) : v[h] \in CaseIgnorableChars

\* str.lower()
Lower(s) ==
    LET From(v) ==
            Concat([i \in 1..Len(v) |->
                       IF v[i] = Sigma
                       THEN (IF FinalSigma(v, i) THEN <<FinalSmallSigma>>
                             ELSE <<SmallSigma>>)
                       ELSE LowerChar(v[i])])
    IN  The({From(v) : v \in {s}})


\* s[:n] for any integer n (a negative n counts from the end).
Take(s, n) ==
    IF n >= 0
    THEN SubSeq(s, 1, IF n < Len(s) THEN n ELSE Len(s))
    ELSE SubSeq(s, 1, IF Len(s) + n > 0 THEN Len(s) + n ELSE 0)

\* str.strip()
Strip(s) ==
    LET From(v) ==
            LET keep == {i \in 1..Len(v) : ~IsSpace(v[i])}
            IN  IF keep = {} THEN <<>>
                ELSE SubSeq(v, CHOOSE i \in keep : \A j \in keep : i <= j,
                               CHOOSE i \in keep : \A j \in keep : j <= i)
    IN  The({From(v) : v \in {s}})

\* str.replace(old, new): left to right, non-overlapping, one pass.
RECURSIVE Replace(_, _, _)
Replace(s, old, new) ==
    LET From(v) ==
            LET hits == {i \in 1..(Len(v) - Len(old) + 1) :
                            SubSeq(v, i, i + Len(old) - 1) = old}
            IN  IF hits = {} THEN v
                ELSE LET m == CHOOSE i \in hits : \A j \in hits : i <= j
                     IN  SubSeq(v, 1, m - 1) \o new
                           \o Replace(SubSeq(v, m + Len(old), Len(v)), old, new)
    IN  The({From(v) : v \in {s}})

\* str.split(): the maximal runs of non-whitespace characters.
RECURSIVE Split(_)
Split(s) ==
    LET From(v) ==
            LET starts == {i \in 1..Len(v) : ~IsSpace(v[i])}
            IN  IF starts = {} THEN <<>>
                ELSE LET b    == CHOOSE i \in starts : \A j \in starts : i <= j
                         ends == {i \in b..Len(v) : i = Len(v) \/ IsSpace(v[i + 1])}
                         e    == CHOOSE i \in ends : \A j \in ends : i <= j
                     IN  <<SubSeq(v, b, e)>> \o Split(SubSeq(v, e + 1, Len(v)))
    IN  The({From(v) : v \in {s}})

\* " ".join(words)
RECURSIVE JoinSpace(_)
JoinSpace(words) ==
    LET From(w) ==
            IF w = <<>> THEN <<>>
            ELSE IF Len(w) = 1 THEN w[1]
            ELSE w[1] \o <<" ">> \o JoinSpace(Tail(w))
    IN  The({From(w) : w \in {words}})

\* The tags clean_summary replaces, in the order it replaces them.
SummaryTags == << <<"<", "p", ">">>,
                  <<"<", "/", "p", ">">>,
                  <<"<", "b", "r", ">">>,
                  <<"<", "b", "r", "/", ">">>,
                  <<"<", "b", "r", " ", "/", ">">> >>

RECURSIVE ReplaceTags(_, _)
ReplaceTags(t, k) ==
    IF k > Len(SummaryTags) THEN t
    ELSE ReplaceTags(Replace(t, SummaryTags[k], <<" ">>), k + 1)

\* Lines 70-74: newlines and carriage returns to spaces, the tags to spaces,
\* whitespace collapsed and trimmed.
CleanText(txt) ==
    LET t1 == Replace(Replace(txt, <<"\n">>, <<" ">>), <<"\r">>, <<" ">>)
    IN  JoinSpace(Split(ReplaceTags(t1, 1)))

\* The cut of line 75.
SummaryLimit == 140

clean_summary_AlwaysEllipsis(txt) ==
    IF txt = <<>> THEN <<>>
    ELSE Take(CleanText(txt), SummaryLimit) \o <<Ellipsis>>

clean_summary(txt) ==
    IF txt = <<>> THEN <<>>
    ELSE The({IF t # <<>> THEN Take(t, SummaryLimit) \o <<Ellipsis>> ELSE <<>>
              : t \in {CleanText(txt)}})


\* ---------------------------------------------------------------- values

\* The values a field of a parsed document can hold. Absent is a key the
\* document lacks; the others are None, a string, an integer, a time tuple,
\* a list of values, a dict (a record whose lacking keys hold Absent) and an
\* object that is none of these, object().
Absent == [kind |-> "absent", val |-> <<>>]
None == [kind |-> "none", val |-> <<>>]
Str(s) == [kind |-> "str", val |-> s]
Num(n) == [kind |-> "num", val |-> n]
Tup(t) == [kind |-> "tuple", val |-> t]
List(l) == [kind |-> "list", val |-> l]
Dict(d) == [kind |-> "dict", val |-> d]
Obj == [kind |-> "obj", val |-> <<>>]

\* Python truthiness of a value.
Truthy(x) ==
    CASE x.kind \in {"absent", "none"} -> FALSE
      [] x.kind \in {"str", "tuple", "list"} -> x.val # <<>>
      [] x.kind = "num" -> x.val # 0
      [] x.kind = "dict" -> \E f \in DOMAIN x.val : x.val[f] # Absent
      [] x.kind = "obj" -> TRUE

\* d.get(key): None for a key the dict lacks.
DictGet(d, key) == IF d.val[key] = Absent THEN None ELSE d.val[key]

\* The utf-8 file of line 179 takes the string: a lone surrogate makes the
\* write raise UnicodeEncodeError.
Encodable(s) == \A i \in 1..Len(s) : s[i] \notin SurrogateChars

\* json.dump can write the value into that file: it raises TypeError for an
\* object and UnicodeEncodeError for a string that is not encodable.
RECURSIVE JsonSerializable(_)
JsonSerializable(x) ==
    CASE x.kind = "obj" -> FALSE
      [] x.kind = "str" -> Encodable(x.val)
      [] x.kind = "list" -> \A i \in 1..Len(x.val) : JsonSerializable(x.val[i])
      [] x.kind = "dict" -> \A f \in DOMAIN x.val : x.val[f] = Absent \/ JsonSerializable(x.val[f])
      [] OTHER -> TRUE

\* ----------------------------------------------------------------- dates

\* A datetime is <<year, month, day, hour, minute, second, microsecond>> in
\* UTC; NoDate is Python's None.
NoDate == <<>>

IsLeap(y) == y % 4 = 0 /\ (y % 100 # 0 \/ y % 400 = 0)

DaysInMonth(y, m) ==
    IF m = 2 THEN (IF IsLeap(y) THEN 29 ELSE 28)
    ELSE IF m \in {4, 6, 9, 11} THEN 30 ELSE 31

\* The range check of the datetime constructor.
ValidDateTime(t) ==
    /\ Len(t) = 7
    /\ t[1] \in 1..9999
    /\ t[2] \in 1..12
    /\ t[3] >= 1 /\ t[3] <= DaysInMonth(t[1], t[2])
    /\ t[4] \in 0..23
    /\ t[5] \in 0..59
    /\ t[6] \in 0..59
    /\ t[7] \in 0..999999

\* Days of the year that precede the first day of month m.
DaysBeforeMonth(y, m) ==
    <<0, 31, 59, 90, 120, 151, 181, 212, 243, 273, 304, 334>>[m]
      + (IF m > 2 /\ IsLeap(y) THEN 1 ELSE 0)

\* Days that precede the first day of year y.
DaysBeforeYear(y) == (y - 1) * 365 + ((y - 1) \div 4) - ((y - 1) \div 100) + ((y - 1) \div 400)

\* Proleptic Gregorian ordinal of a date (1 = 0001-01-01).
Ordinal(t) == DaysBeforeYear(t[1]) + DaysBeforeMonth(t[1], t[2]) + t[3]

\* The ordinal of 9999-12-31, the last day a datetime can hold.
MaxOrdinal == Ordinal(<<9999, 12, 31, 0, 0, 0, 0>>)

\* The date of an ordinal that falls in the year hint or next to it, NoDate
\* for one outside the years 1..9999.
FromOrdinal(n, hint) ==
    IF n < 1 \/ n > MaxOrdinal THEN NoDate
    ELSE The({The({The({<<y, m, rest - DaysBeforeMonth(y, m), 0, 0, 0, 0>>
                        : m \in {CHOOSE c \in 1..12 :
                                    /\ DaysBeforeMonth(y, c) < rest
                                    /\ rest <= DaysBeforeMonth(y, c) + DaysInMonth(y, c)}})
                   : rest \in {n - DaysBeforeYear(y)}})
              : y \in {CHOOSE c \in (hint - 1)..(hint + 1) :
                          DaysBeforeYear(c) < n /\ n <= DaysBeforeYear(c + 1)}})

SecondOfDay(t) == t[4] * 3600 + t[5] * 60 + t[6]

\* An instant is <<ordinal day, second of the day, microsecond>>; instants
\* compare as aware datetimes do.
Instant(t) == <<Ordinal(t), SecondOfDay(t), t[7]>>
InstantLess(a, b) ==
    \/ a[1] < b[1]
    \/ a[1] = b[1] /\ a[2] < b[2]
    \/ a[1] = b[1] /\ a[2] = b[2] /\ a[3] < b[3]
DateTimeLess(a, b) == InstantLess(Instant(a), Instant(b))

\* The largest number of days a timedelta holds.
MaxDeltaDays == 999999999

\* Line 101 raises OverflowError: timedelta(days = n) for an n beyond its
\* range, and the subtraction for a result outside the years 1..9999.
MinusDaysOverflows(t, n) ==
    \/ n > MaxDeltaDays \/ n < -MaxDeltaDays
    \/ Ordinal(t) - n < 1
    \/ Ordinal(t) - n > MaxOrdinal

\* now_utc - timedelta(days = n), as an instant.
MinusDays(t, n) == <<Ordinal(t) - n, SecondOfDay(t), t[7]>>

Digits == <<"0", "1", "2", "3", "4", "5", "6", "7", "8", "9">>
IsDigit(c) == \E i \in 1..10 : Digits[i] = c
DigitVal(c) == (CHOOSE i \in 1..10 : Digits[i] = c) - 1

RECURSIVE Number(_)
Number(s) ==
    The({IF v = <<>> THEN 0 ELSE Number(Take(v, Len(v) - 1)) * 10 + DigitVal(v[Len(v)])
         : v \in {s}})

AllDigits(s) == \A i \in 1..Len(s) : IsDigit(s[i])

\* The calendar form YYYY-MM-DD.
ParseCalendarDate(v) ==
    IF /\ v[5] = "-" /\ v[8] = "-"
       /\ AllDigits(SubSeq(v, 1, 4))
       /\ AllDigits(SubSeq(v, 6, 7))
       /\ AllDigits(SubSeq(v, 9, 10))
    THEN The({IF ValidDateTime(t) THEN t ELSE NoDate
              : t \in {<<Number(SubSeq(v, 1, 4)), Number(SubSeq(v, 6, 7)),
                         Number(SubSeq(v, 9, 10)), 0, 0, 0, 0>>}})
    ELSE NoDate

\* Monday = 0 ... Sunday = 6 of an ordinal.
Weekday(n) == (n + 6) % 7

\* The date of day d (1 = Monday) of ISO week w of ISO year y, NoDate when
\* the year has no such week, the day is not 1..7 or the date falls outside
\* the years 1..9999. Week 1 is the week of the year's first Thursday: its
\* Monday is the year's first day less that day's weekday, a week later when
\* the year starts after a Thursday. A year has a week 53 when it starts on
\* a Thursday, or on a Wednesday and is a leap year.
IsoToDate(y, w, d) ==
    The({The({IF /\ y \in 1..9999
                 /\ w >= 1
                 /\ (w <= 52 \/ (w = 53 /\ (first_weekday = 3
                                              \/ (first_weekday = 2 /\ IsLeap(y)))))
                 /\ d \in 1..7
              THEN The({FromOrdinal(n, y)
                        : n \in {first_day - first_weekday
                                   + (IF first_weekday > 3 THEN 7 ELSE 0)
                                   + (w - 1) * 7 + d - 1}})
              ELSE NoDate
              : first_weekday \in {Weekday(first_day)}})
         : first_day \in {DaysBeforeYear(y) + 1}})

\* The week form YYYY-Www-D, which fromisoformat reads since Python 3.11.
ParseWeekDate(v) ==
    IF /\ v[5] = "-" /\ v[6] = "W" /\ v[9] = "-"
       /\ AllDigits(SubSeq(v, 1, 4))
       /\ AllDigits(SubSeq(v, 7, 8))
       /\ IsDigit(v[10])
    THEN The({IsoToDate(y, w, d)
              : y \in {Number(SubSeq(v, 1, 4))}, w \in {Number(SubSeq(v, 7, 8))},
                d \in {DigitVal(v[10])}})
    ELSE NoDate

\* datetime.fromisoformat(s10 + "T00:00:00+00:00") for the ten characters
\* s10: the date at UTC midnight, NoDate when it raises. Of the date forms
\* fromisoformat reads, YYYY-MM-DD and YYYY-Www-D are the two that fill the
\* ten characters before the "T".
ParseIsoDate(s10) ==
    LET From(v) ==
            IF Len(v) # 10 THEN NoDate
            ELSE IF v[6] = "W" THEN ParseWeekDate(v)
            ELSE ParseCalendarDate(v)
    IN  The({From(v) : v \in {s10}})

\* Line 47: datetime(*entry[key][:6], tzinfo = utc), NoDate when it raises.
\* The constructor wants year, month and day; hour, minute, second and
\* microsecond default to 0. A value that is no time tuple raises.
StructuredDate(x) ==
    LET From(v) ==
            IF Len(v) >= 3
            THEN The({IF ValidDateTime(t) THEN t ELSE NoDate
                      : t \in {[i \in 1..7 |-> IF i <= Len(v) /\ i <= 6 THEN v[i] ELSE 0]}})
            ELSE NoDate
    IN  CASE x.kind = "tuple" -> From(x.val)
          [] x.kind = "list" ->
                IF \A i \in 1..Len(x.val) : i <= 6 => x.val[i].kind = "num"
                THEN From([i \in 1..Len(x.val) |-> IF i <= 6 THEN x.val[i].val ELSE 0])
                ELSE NoDate
          [] OTHER -> NoDate

\* Lines 53-56: the text fallback for one field, NoDate when it is skipped
\* or raises.
IsoPrefixLen == 10

TextDate(x) ==
    IF x.kind = "str" /\ Len(x.val) >= IsoPrefixLen
    THEN ParseIsoDate(Take(x.val, IsoPrefixLen))
    ELSE NoDate

ParsedKeys == <<"published_parsed", "updated_parsed", "created_parsed">>
TextKeys == <<"published", "updated", "created">>

RECURSIVE FirstStructured(_, _)
FirstStructured(entry, i) ==
    IF i > Len(ParsedKeys) THEN NoDate
    ELSE LET d == StructuredDate(entry[ParsedKeys[i]])
         IN  IF Truthy(entry[ParsedKeys[i]]) /\ d # NoDate
             THEN d
             ELSE FirstStructured(entry, i + 1)

RECURSIVE FirstText(_, _)
FirstText(entry, i) ==
    IF i > Len(TextKeys) THEN NoDate
    ELSE LET d == TextDate(entry[TextKeys[i]])
         IN  IF d # NoDate THEN d ELSE FirstText(entry, i + 1)

pick_date_StructuredOnly(entry) == FirstStructured(entry, 1)

\* Lines 42-60
pick_date(entry) ==
    The({The({IF d # NoDate THEN d ELSE FirstText(e, 1) : d \in {FirstStructured(e, 1)}})
         : e \in {entry}})

RECURSIVE Pow10(_)
Pow10(k) == IF k = 0 THEN 1 ELSE 10 * Pow10(k - 1)

\* The decimal digits of n, zero-padded to width: %m, %d, %H and %M.
Pad(n, width) ==
    [i \in 1..width |-> Digits[((n \div Pow10(width - i)) % 10) + 1]]

\* The decimal digits of n >= 1 without padding: %Y as the C library of the
\* build (glibc) prints it, "999" for the year 999.
RECURSIVE Decimal(_)
Decimal(n) ==
    IF n < 10 THEN <<Digits[n + 1]>>
    ELSE Decimal(n \div 10) \o <<Digits[(n % 10) + 1]>>

\* strftime("%Y-%m-%d") of a UTC datetime, "" for None.
date_to_str(d) ==
    The({IF v = NoDate THEN <<>>
         ELSE Decimal(v[1]) \o <<"-">> \o Pad(v[2], 2) \o <<"-">> \o Pad(v[3], 2)
         : v \in {d}})

\* --------------------------------------------------------- extract_image

\* One dict of a media list: the keys extract_image reads.
Media(url, medium, type, href) ==
    Dict([url |-> url, medium |-> medium, type |-> type, href |-> href])

ImageSlash == <<"i", "m", "a", "g", "e", "/">>

\* str(m.get("type", "")).startswith("image/"): str() of a value that is no
\* string does not start with "image/".
IsImageType(x) == x.kind = "str" /\ Take(x.val, Len(ImageSlash)) = ImageSlash

\* How a channel ends: it returns a value, raises, or falls through to the
\* next channel.
Returns(x) == [how |-> "return", out |-> x]
Raises == [how |-> "raise", out |-> None]
FallsThrough == [how |-> "next", out |-> None]

\* Lines 79-81: the first thumbnail's url.
Thumbnail(entry) ==
    LET x == entry.media_thumbnail
    IN  IF ~Truthy(x) THEN FallsThrough
        ELSE IF x.kind # "list" \/ x.val[1].kind # "dict" THEN Raises
        ELSE IF Truthy(DictGet(x.val[1], "url")) THEN Returns(x.val[1].val.url)
        ELSE FallsThrough

\* Lines 83-85 (what = "content") and 87-89 (what = "links") over the list.
RECURSIVE ScanMedia(_, _)
ScanMedia(list, what) ==
    IF list = <<>> THEN FallsThrough
    ELSE LET m == Head(list)
         IN  IF m.kind # "dict" THEN Raises
             ELSE IF /\ what = "content"
                     /\ (m.val.medium = Str(<<"i", "m", "a", "g", "e">>) \/ IsImageType(m.val.type))
                     /\ Truthy(DictGet(m, "url"))
             THEN Returns(m.val.url)
             ELSE IF what = "links" /\ IsImageType(m.val.type) /\ Truthy(DictGet(m, "href"))
             THEN Returns(m.val.href)
             ELSE ScanMedia(Tail(list), what)

\* Lines 82 and 86: a truthy value that is no list cannot be read as a list
\* of dicts.
MediaList(x, what) ==
    IF ~Truthy(x) THEN FallsThrough
    ELSE IF x.kind # "list" THEN Raises
    ELSE ScanMedia(x.val, what)

\* Lines 90-91: a present value is asked for its href, whatever it is.
ItunesImage(entry) ==
    LET x == entry.itunes_image
    IN  IF x = Absent THEN FallsThrough
        ELSE IF x.kind # "dict" THEN Raises
        ELSE IF Truthy(DictGet(x, "href")) THEN Returns(x.val.href)
        ELSE FallsThrough

\* Lines 92-93
ImageDict(entry) ==
    LET x == entry.image
    IN  IF x.kind = "dict" /\ Truthy(DictGet(x, "href")) THEN Returns(x.val.href)
        ELSE FallsThrough

\* Lines 77-96: the channels in order; an exception in any of them ends the
\* search with None.
extract_image(entry) ==
    LET From(e) ==
            LET Try(channels) ==
                    LET first == {i \in 1..Len(channels) : channels[i].how # "next"}
                    IN  IF first = {} THEN None
                        ELSE channels[CHOOSE i \in first : \A j \in first : i <= j].out
            IN  Try(<<Thumbnail(e), MediaList(e.media_content, "content"),
                      MediaList(e.links, "links"), ItunesImage(e), ImageDict(e)>>)
    IN  The({From(e) : e \in {entry}})

\* ----------------------------------------------------------- the feeds

\* One raw entry as the Feed Reader returns it: the keys main() and its
\* helpers read.
BlankEntry ==
    [link |-> Absent, title |-> Absent, summary |-> Absent,
     published_parsed |-> Absent, updated_parsed |-> Absent, created_parsed |-> Absent,
     published |-> Absent, updated |-> Absent, created |-> Absent,
     media_thumbnail |-> Absent, media_content |-> Absent, links |-> Absent,
     itunes_image |-> Absent, image |-> Absent]

\* The instants the run starts at (line 100): a whole second, and one
\* microsecond after it.
NowSample == <<2024, 3, 31, 12, 0, 0, 0>>
NowSampleLate == <<2024, 3, 31, 12, 0, 0, 1>>

IsoText == <<"2", "0", "2", "4", "-", "0", "3", "-", "1", "5",
             "T", "1", "0", ":", "0", "0", ":", "0", "0", "Z">>
RfcText == <<"F", "r", "i", ",", " ", "1", "5", " ", "M", "a", "r", " ",
             "2", "0", "2", "4">>
\* Friday of ISO week 11 of 2024: 2024-03-15.
WeekText == <<"2", "0", "2", "4", "-", "W", "1", "1", "-", "5">>
OldYearText == <<"0", "9", "9", "9", "-", "1", "2", "-", "3", "1">>

NoKey == Media(Absent, Absent, Absent, Absent)

\* link "aé", dated exactly 30 days before NowSample.
eCut ==
    [BlankEntry EXCEPT !.link = Str(<<"a", "U+00E9">>), !.title = Str(<<"T", "1">>),
                       !.summary = Str(<<"<", "p", ">", "x", "<", "/", "p", ">">>),
                       !.published_parsed = Tup(<<2024, 3, 1, 12, 0, 0, 4, 61, 0>>)]
\* link "c", no date at all and an empty summary.
eUndated ==
    [BlankEntry EXCEPT !.link = Str(<<"c">>), !.title = Str(<<"T", "c">>),
                       !.summary = Str(<<>>)]
\* link "d", only a text date that is not ISO.
eRfc ==
    [BlankEntry EXCEPT !.link = Str(<<"d">>), !.title = Str(<<"T", "d">>),
                       !.published = Str(RfcText)]
\* link "b", dated one second before 30 days before NowSample.
eOld ==
    [BlankEntry EXCEPT !.link = Str(<<"b">>), !.title = Str(<<"T", "b">>),
                       !.summary = None,
                       !.updated_parsed = Tup(<<2024, 3, 1, 11, 59, 59>>)]
\* link " AÉ" (the key of eCut), dated by its text field only, with an image
\* among its links.
eText ==
    [BlankEntry EXCEPT !.link = Str(<<" ", "A", "U+00C9">>), !.title = Str(<<"T", "u", " ">>),
                       !.summary = Str(<<"x", "\n", "y", "U+00A0", "z">>),
                       !.published = Str(IsoText),
                       !.links = List(<<[NoKey EXCEPT !.val.type = Str(<<"t", "e", "x", "t", "/", "x">>),
                                                      !.val.href = Str(<<"h">>)],
                                        [NoKey EXCEPT !.val.type = Str(ImageSlash \o <<"p", "n", "g">>),
                                                      !.val.href = Str(<<"i">>)]>>)]
\* link "aé" with a title of whitespace only.
eNoTitle ==
    [BlankEntry EXCEPT !.link = Str(<<"a", "U+00E9">>), !.title = Str(<<"U+00A0", " ">>),
                       !.published_parsed = Tup(<<2024, 3, 20, 8, 0, 0>>)]
\* link "aÉ" and a trailing no-break space, complete, with a thumbnail.
eLate ==
    [BlankEntry EXCEPT !.link = Str(<<"a", "U+00C9", "U+00A0">>), !.title = Str(<<"T", "2">>),
                       !.created_parsed = Tup(<<2024, 3, 20, 8, 0, 0>>),
                       !.media_thumbnail = List(<<[NoKey EXCEPT !.val.url = Str(<<"t">>)]>>)]
\* link "e", recent; itunes_image is None, so extract_image raises inside
\* and never reaches the image dict.
eNew ==
    [BlankEntry EXCEPT !.link = Str(<<"e">>), !.title = Str(<<"T", "e">>),
                       !.published_parsed = Tup(<<2024, 3, 15, 23, 59, 59>>),
                       !.itunes_image = None,
                       !.image = [NoKey EXCEPT !.val.href = Str(<<"z">>)]]
\* link "w", dated by an ISO week date; its image is the number 5.
eWeek ==
    [BlankEntry EXCEPT !.link = Str(<<"w">>), !.title = Str(<<"T", "w">>),
                       !.updated = Str(WeekText),
                       !.media_content = List(<<[NoKey EXCEPT !.val.medium = Str(<<"i", "m", "a", "g", "e">>)],
                                                [NoKey EXCEPT !.val.type = Str(ImageSlash),
                                                              !.val.url = Num(5)]>>)]
\* link "y", dated in the year 999.
eAncient ==
    [BlankEntry EXCEPT !.link = Str(<<"y">>), !.title = Str(<<"T", "y">>),
                       !.created = Str(OldYearText),
                       !.image = [NoKey EXCEPT !.val.href = Str(<<"g">>)]]
\* a link that is no string: (e.get("link") or "").strip() raises.
eBad ==
    [BlankEntry EXCEPT !.link = Obj, !.title = Str(<<"T", "x">>),
                       !.published_parsed = Tup(<<2024, 3, 25, 0, 0, 0>>)]

\* link "s", fresh, dated by a list; its summary holds a lone surrogate.
eSurrogate ==
    [BlankEntry EXCEPT !.link = Str(<<"s">>), !.title = Str(<<"T", "s">>),
                       !.summary = Str(<<"x", "U+DC00">>),
                       !.published_parsed = List(<<Num(2024), Num(3), Num(10)>>)]

\* What feedparser.parse answers: it raises, or gives the feed's title
\* (Absent when the feed has none) and the entries.
Raised == [raised |-> TRUE, title |-> Absent, entries |-> <<>>]
Parsed(title, entries) == [raised |-> FALSE, title |-> title, entries |-> entries]

\* The locators of the model and the document each one serves. The run is a
\* function of the feeds documents, the settings, the clock and these
\* documents.
Locators == {<<"A">>, <<"B">>, <<"C">>, <<"D">>, <<"E">>, <<"F">>,
             <<"G">>, <<"H">>, <<"I">>, <<"J">>, <<"K">>, <<"L">>}

Web(url) ==
    CASE url = <<"A">> -> Parsed(Str(<<"A", "l">>), <<eCut, eUndated>>)
      [] url = <<"B">> -> Raised
      [] url = <<"C">> -> Parsed(Str(<<"C", "e">>), <<>>)
      [] url = <<"D">> -> Parsed(Str(<<"D", "e">>), <<eRfc>>)
      [] url = <<"E">> -> Parsed(Str(<<"E", "e">>), <<eOld>>)
      [] url = <<"F">> -> Parsed(Absent, <<eText, eOld>>)
      [] url = <<"G">> -> Parsed(None, <<eNoTitle, eLate, eAncient>>)
      [] url = <<"H">> -> Parsed(Num(7), <<eOld, eWeek>>)
      [] url = <<"I">> -> Parsed(Str(<<"I", "e">>), <<eUndated, eBad, eLate>>)
      [] url = <<"J">> -> Parsed(Str(<<"J", "e">>), <<eCut, eText, eNew, eUndated>>)
      [] url = <<"K">> -> Parsed(Obj, <<eNew>>)
      [] url = <<"L">> -> Parsed(Str(<<"L", "e">>), <<eNew, eSurrogate>>)

\* ------------------------------------------------------------ load_feeds

\* Number of items of the feeds document.
MaxFeeds == 2

\* A dict of the feeds document: its url, Absent when it has none.
UrlDict(u) == Dict([url |-> u])

\* Items a feeds document can hold: a URL string, a dict with a url that is
\* a string or is not, a dict without one, or anything else.
RawItems ==
    {Str(u) : u \in Locators}
      \cup {Str(<<" ", "A", "\n">>), Str(<<"U+00A0", "C", "\f">>), Str(<<" ">>),
            UrlDict(Str(<<"B", " ">>)), UrlDict(Absent), Num(7),
            UrlDict(Num(7)), UrlDict(None)}

RECURSIVE SeqsUpTo(_, _)
SeqsUpTo(S, n) ==
    IF n = 0 THEN {<<>>}
    ELSE LET shorter == SeqsUpTo(S, n - 1)
         IN  shorter \cup {Append(q, x) : q \in {r \in shorter : Len(r) = n - 1}, x \in S}

\* A candidate file: missing, no JSON text, or a JSON document.
Missing == [state |-> "missing", doc |-> None]
NotJson == [state |-> "not-json", doc |-> None]
JsonFile(doc) == [state |-> "json", doc |-> doc]

\* The working directories: data/feeds.json and feeds.json, each missing,
\* broken, or a document that is a list of at most MaxFeeds items or no
\* list.
Directories ==
    {[data |-> JsonFile(List(d)), root |-> Missing] : d \in SeqsUpTo(RawItems, MaxFeeds)}
      \cup {[data |-> d, root |-> r]
            : d \in {Missing, NotJson, JsonFile(Dict([url |-> Str(<<"A">>)])),
                     JsonFile(List(<<Str(<<"F">>)>>))},
              r \in {Missing, NotJson, JsonFile(List(<<Str(<<"A">>), Str(<<"J">>)>>))}}

\* Line 27: the first candidate that exists.
FeedsFile(dir) == IF dir.data # Missing THEN dir.data ELSE dir.root

\* Line 37: item["url"].strip() of a url that is no string raises
\* AttributeError.
ItemRaises(item) == item.kind = "dict" /\ item.val.url # Absent /\ item.val.url.kind # "str"

\* Lines 32-37
RECURSIVE StrippedUrls(_)
StrippedUrls(data) ==
    IF data = <<>> THEN <<>>
    ELSE LET item == Head(data)
         IN  (IF item.kind = "str" THEN <<Strip(item.val)>>
              ELSE IF item.kind = "dict" /\ item.val.url # Absent THEN <<Strip(item.val.url.val)>>
              ELSE <<>>)
               \o StrippedUrls(Tail(data))

NonEmpty(u) == u # <<>>

\* load_feeds raises: json.load on a file that is no JSON text, or line 37.
load_feeds_raises(dir) ==
    \E file \in {FeedsFile(dir)} :
        \/ file.state = "not-json"
        \/ /\ file.state = "json" /\ file.doc.kind = "list"
           /\ \E i \in 1..Len(file.doc.val) : ItemRaises(file.doc.val[i])

\* Lines 24-40, when it returns.
load_feeds(dir) ==
    The({IF file.state = "json" /\ file.doc.kind = "list"
         THEN SelectSeq(StrippedUrls(file.doc.val), NonEmpty)
         ELSE <<>>
         : file \in {FeedsFile(dir)}})

\* --------------------------------------------------------------- one feed

\* The loop of lines 126-130.
RECURSIVE LatestDate(_, _)
LatestDate(entries, latest_dt) ==
    LET From(es, l) ==
            IF es = <<>> THEN l
            ELSE The({LatestDate(Tail(es),
                                 IF d # NoDate /\ (l = NoDate \/ DateTimeLess(l, d))
                                 THEN d ELSE l)
                      : d \in {pick_date(Head(es))}})
    IN  The({From(es, l) : es \in {entries}, l \in {latest_dt}})

IsStale_Inclusive(entries, cutoff) ==
    \E latest_dt \in {LatestDate(entries, NoDate)} :
        \/ entries = <<>>
        \/ latest_dt = NoDate
        \/ ~InstantLess(cutoff, Instant(latest_dt))

\* Lines 119 and 132: the source is skipped as stale.
IsStale(entries, cutoff) ==
    \E latest_dt \in {LatestDate(entries, NoDate)} :
        \/ entries = <<>>
        \/ latest_dt = NoDate
        \/ InstantLess(Instant(latest_dt), cutoff)

CapEntries_OneMore(entries, limit) == Take(entries, limit + 1)

\* Line 138: entries[:PER_FEED_LIMIT]
CapEntries(entries, limit) == Take(entries, limit)

DefaultSource == <<"R", "S", "S", " ", "S", "o", "u", "r", "c", "e">>

\* Line 139: feed.feed.get("title", "RSS Source"): the default only for a
\* feed without the key; a title that is present is taken as it is, None or
\* an object included.
SourceTitle(feed) == IF feed.title = Absent THEN Str(DefaultSource) ELSE feed.title

\* (x or ""), and e.get("summary", "") inside clean_summary: the text of a
\* string, "" for a falsy value.
FieldText(x) == IF Truthy(x) /\ x.kind = "str" THEN x.val ELSE <<>>

\* A truthy value that is no string has no strip() and no replace().
FieldRaises(x) == Truthy(x) /\ x.kind # "str"

DedupKey_AsIs(link) == link

\* Lines 147 and 160: link.lower()
DedupKey(link) == Lower(link)

\* Lines 151-158
BuildItem(e, link, title, source) ==
    [title |-> title, link |-> link, date |-> date_to_str(pick_date(e)),
     summary |-> clean_summary(FieldText(e.summary)), source |-> source,
     image |-> extract_image(e)]

\* One pass of the loop of lines 141-160 over the entry e. acc holds the
\* items, the seen links and whether an exception left the loop.
EntryStep(acc, e, source) ==
    IF FieldRaises(e.link) THEN [acc EXCEPT !.raised = TRUE]
    ELSE IF FieldRaises(e.title) THEN [acc EXCEPT !.raised = TRUE]
    ELSE The({IF link = <<>> \/ title = <<>> THEN acc
              ELSE IF DedupKey(link) \in acc.seen THEN acc
              ELSE IF FieldRaises(e.summary) THEN [acc EXCEPT !.raised = TRUE]
              ELSE [acc EXCEPT !.items = Append(@, BuildItem(e, link, title, source)),
                               !.seen = @ \cup {DedupKey(link)}]
              : link \in {Strip(FieldText(e.link))}, title \in {Strip(FieldText(e.title))}})

RECURSIVE ProcessEntries(_, _, _)
ProcessEntries(acc, entries, source) ==
    LET From(a, es, src) ==
            IF es = <<>> \/ a.raised THEN a
            ELSE The({ProcessEntries(EntryStep(a, e, src), Tail(es), src) : e \in {Head(es)}})
    IN  The({From(a, es, src) : a \in {acc}, es \in {entries}, src \in {source}})

OnError_CountsStale(stats) ==
    [stats EXCEPT !.errors = @ + 1, !.skipped_stale = @ + 1]

\* Line 165
OnError(stats) == [stats EXCEPT !.errors = @ + 1]

MarkStale_FallsThrough(stats) ==
    [stats EXCEPT !.skipped_stale = @ + 1, !.used_sources = @ + 1]

\* Lines 121 and 134
MarkStale(stats) == [stats EXCEPT !.skipped_stale = @ + 1]

\* Line 162
MarkUsed(stats) == [stats EXCEPT !.used_sources = @ + 1]

\* The body of the loop of lines 114-166 for the answer feed of the Feed
\* Reader. run holds stats, all_items and seen_links; outcome names the path
\* taken.
LoopBody(run, feed, cutoff, per_feed_limit) ==
    IF feed.raised
    THEN [run EXCEPT !.stats = OnError(@), !.outcome = "fetch-error"]
    ELSE IF IsStale(feed.entries, cutoff)
    THEN [run EXCEPT !.stats = MarkStale(@), !.outcome = "stale"]
    ELSE The({[stats      |-> IF acc.raised THEN OnError(run.stats) ELSE MarkUsed(run.stats),
               all_items  |-> acc.items,
               seen_links |-> acc.seen,
               outcome    |-> IF acc.raised THEN "entry-error" ELSE "used"]
              : acc \in {ProcessEntries(
                             [items |-> run.all_items, seen |-> run.seen_links,
                              raised |-> FALSE],
                             CapEntries(feed.entries, per_feed_limit),
                             SourceTitle(feed))}})

\* ------------------------------------------------------- sort and cap

\* The characters of a date string in code point order.
CodeOrder == <<"-", "0", "1", "2", "3", "4", "5", "6", "7", "8", "9">>
Code(c) == CHOOSE i \in 1..Len(CodeOrder) : CodeOrder[i] = c

\* a < b for Python strings.
LexLess(a, b) ==
    \E i \in 1..(Len(b)) :
        /\ i <= Len(a) + 1
        /\ SubSeq(a, 1, i - 1) = SubSeq(b, 1, i - 1)
        /\ (i = Len(a) + 1 \/ Code(a[i]) < Code(b[i]))

\* Line 171: the stable sort by date, greatest first. An item stands after
\* the items with a greater date and the items with its own date that come
\* before it in the list.
SortByDateDesc(items) ==
    LET ahead(i) == {j \in 1..Len(items) :
                        \/ LexLess(items[i].date, items[j].date)
                        \/ items[j].date = items[i].date /\ j < i}
    IN  [k \in 1..Len(items) |->
            items[CHOOSE i \in 1..Len(items) : Cardinality(ahead(i)) = k - 1]]

\* Lines 172-173
GlobalCap(items, total_limit) ==
    IF total_limit # 0 /\ Len(items) > total_limit
    THEN Take(items, total_limit)
    ELSE items

\* Line 180: json.dump raises at the first item with a field it cannot
\* write into the file. The title, the link, the date and the summary are
\* strings; the source and the image are what the feed gave.
ItemSerializable(item) ==
    /\ Encodable(item.title)
    /\ Encodable(item.link)
    /\ Encodable(item.date)
    /\ Encodable(item.summary)
    /\ JsonSerializable(item.source)
    /\ JsonSerializable(item.image)

\* The items json.dump wrote whole before it raised.
RECURSIVE WrittenBeforeError(_)
WrittenBeforeError(items) ==
    IF items = <<>> \/ ~ItemSerializable(Head(items)) THEN <<>>
    ELSE <<Head(items)>> \o WrittenBeforeError(Tail(items))

\* Line 184: now_utc.strftime("%Y-%m-%d %H:%M UTC")
UpdatedText(now) ==
    date_to_str(now) \o <<" ">> \o Pad(now[4], 2) \o <<":">> \o Pad(now[5], 2)
        \o <<" ", "U", "T", "C">>

\* ---------------------------------------------------------------- the run

VARIABLES
    STALE_DAYS, PER_FEED_LIMIT, TOTAL_LIMIT,  \* lines 16-18
    feeds,          \* the locator list of line 99
    now_utc,        \* line 100
    stale_cutoff,   \* line 101, as an instant
    stats,          \* lines 103-109
    all_items,      \* line 111
    seen_links,     \* line 112
    pos,            \* how many locators the loop of line 114 has taken
    outcome,        \* the path the last pass of the loop took
    pc,             \* "loop", then "done" once both documents are written;
                    \* "load-failed", "cutoff-failed" and "emit-failed" when
                    \* line 99, 101 or 180 raised and main() ended there
    news,           \* the items of data/news.json
    meta,           \* the meta document of lines 183-194
    arg, ret        \* argument and result of a helper applied on its own

vars == <<STALE_DAYS, PER_FEED_LIMIT, TOTAL_LIMIT, feeds, now_utc, stale_cutoff,
          stats, all_items, seen_links, pos, outcome, pc, news, meta, arg, ret>>

\* Values of the settings: the defaults 30, 30 and 200 and values around the
\* sizes of the documents Web serves.
PerFeedLimitValues == {-1, 1, 2, 30}
TotalLimitValues == {-1, 0, 2, 200}

\* The settings and clocks of the runs: every pair of limits with the
\* default STALE_DAYS, both clocks with 30 and 31 days, and two values of
\* STALE_DAYS for which line 101 overflows.
Settings ==
    {[stale_days |-> 30, per_feed_limit |-> p, total_limit |-> t, now |-> NowSample]
     : p \in PerFeedLimitValues, t \in TotalLimitValues}
      \cup {[stale_days |-> s, per_feed_limit |-> p, total_limit |-> 200, now |-> n]
            : s \in {30, 31}, p \in {1, 30}, n \in {NowSample, NowSampleLate}}
      \cup {[stale_days |-> s, per_feed_limit |-> 30, total_limit |-> 200, now |-> NowSample]
            : s \in {Ordinal(NowSample), MaxDeltaDays + 1}}

NoMeta == [updated |-> <<>>, count |-> 0, stats |-> <<>>, config |-> <<>>]

NoStats == [total_sources |-> 0, used_sources |-> 0, skipped_stale |-> 0,
            errors |-> 0, items_before_dedup |-> 0]

\* The state of main() with the variables assigned up to line 112; what is
\* not assigned yet holds its empty value.
RunInit(list, now, cutoff, at) ==
    /\ feeds = list
    /\ now_utc = now
    /\ stale_cutoff = cutoff
    /\ stats = IF at = "cutoff-failed" THEN NoStats
               ELSE [NoStats EXCEPT !.total_sources = Len(list)]
    /\ all_items = <<>>
    /\ seen_links = {}
    /\ pos = 0
    /\ outcome = "none"
    /\ pc = at
    /\ news = <<>>
    /\ meta = NoMeta

\* Lines 99-112. load_feeds and the cutoff stand outside the try block: an
\* exception in either ends main() before the loop.
Init ==
    /\ \E cfg \in Settings, dir \in Directories :
          /\ STALE_DAYS = cfg.stale_days
          /\ PER_FEED_LIMIT = cfg.per_feed_limit
          /\ TOTAL_LIMIT = cfg.total_limit
          /\ IF load_feeds_raises(dir)
             THEN RunInit(<<>>, NoDate, NoDate, "load-failed")
             ELSE IF MinusDaysOverflows(cfg.now, cfg.stale_days)
             THEN RunInit(load_feeds(dir), cfg.now, NoDate, "cutoff-failed")
             ELSE RunInit(load_feeds(dir), cfg.now,
                          MinusDays(cfg.now, cfg.stale_days), "loop")
    /\ arg = <<>>
    /\ ret = <<>>

\* Lines 164-166: the except clause ends the pass and the loop goes on.
AfterError == "loop"

Pass ==
    LoopBody([stats |-> stats, all_items |-> all_items, seen_links |-> seen_links,
              outcome |-> outcome],
             Web(feeds[pos + 1]), stale_cutoff, PER_FEED_LIMIT)

Step(kind) ==
    /\ pc = "loop"
    /\ pos < Len(feeds)
    /\ \E run \in {Pass} :
           /\ run.outcome = kind
           /\ stats' = run.stats
           /\ all_items' = run.all_items
           /\ seen_links' = run.seen_links
    /\ outcome' = kind
    /\ pos' = pos + 1
    /\ pc' = IF kind \in {"fetch-error", "entry-error"} THEN AfterError ELSE "loop"
    /\ UNCHANGED <<STALE_DAYS, PER_FEED_LIMIT, TOTAL_LIMIT, feeds, now_utc, stale_cutoff,
                   news, meta, arg, ret>>

\* feedparser.parse raises.
FetchFails ==
    /\ pc = "loop" /\ pos < Len(feeds)
    /\ Web(feeds[pos + 1]).raised
    /\ Step("fetch-error")

\* The source has no entries or no recent entry.
SkipStale ==
    /\ pc = "loop" /\ pos < Len(feeds)
    /\ ~Web(feeds[pos + 1]).raised
    /\ Step("stale")

\* The source is read to the end of its capped entries.
UseSource ==
    /\ pc = "loop" /\ pos < Len(feeds)
    /\ ~Web(feeds[pos + 1]).raised
    /\ Step("used")

\* An entry raises after the source passed the staleness test.
EntryFails ==
    /\ pc = "loop" /\ pos < Len(feeds)
    /\ ~Web(feeds[pos + 1]).raised
    /\ Step("entry-error")

\* Lines 168-180 with the list that is to be written: the count, the sort,
\* the cap and the writing of data/news.json.
Emit(ok) ==
    /\ pc = "loop"
    /\ pos = Len(feeds)
    /\ \E counted \in {[stats EXCEPT !.items_before_dedup = Len(all_items)]},
          emitted \in {GlobalCap(SortByDateDesc(all_items), TOTAL_LIMIT)} :
           /\ ok = \A n \in 1..Len(emitted) : ItemSerializable(emitted[n])
           /\ stats' = counted
           /\ all_items' = emitted
           /\ news' = WrittenBeforeError(emitted)
           /\ meta' = IF ok
                      THEN [updated |-> UpdatedText(now_utc),
                            count   |-> Len(emitted),
                            stats   |-> counted,
                            config  |-> [stale_days |-> STALE_DAYS,
                                         per_feed_limit |-> PER_FEED_LIMIT,
                                         total_limit |-> TOTAL_LIMIT]]
                      ELSE meta
    /\ pc' = IF ok THEN "done" ELSE "emit-failed"
    /\ UNCHANGED <<STALE_DAYS, PER_FEED_LIMIT, TOTAL_LIMIT, feeds, now_utc, stale_cutoff,
                   seen_links, pos, outcome, arg, ret>>

\* Lines 168-198: both documents are written.
Finish == Emit(TRUE)

\* Lines 168-180: json.dump raises TypeError inside data/news.json, which
\* is left ending in the middle of the item, and main() ends without
\* data/meta.json. news keeps the items written whole.
EmitFails == Emit(FALSE)

Next == FetchFails \/ UseSource \/ SkipStale \/ EntryFails \/ Finish \/ EmitFails

Spec == Init /\ [][Next]_vars

\* ------------------------------------------------------------- the claims

\* The locators the loop has taken so far.
Taken == SubSeq(feeds, 1, pos)

\* The run is past the loop: the count, the sort and the cap are done.
Emitted == pc \in {"done", "emit-failed"}

FetchOk(url) == ~Web(url).raised
FetchRaises(url) == Web(url).raised

Count(list, Test(_)) == Len(SelectSeq(list, Test))

\* The loop run from scratch over another locator list, with the settings
\* and the clock of this run.
RECURSIVE RunOver(_, _)
RunOver(run, list) ==
    IF list = <<>> THEN run
    ELSE RunOver(LoopBody(run, Web(Head(list)), stale_cutoff, PER_FEED_LIMIT), Tail(list))

FreshRun == [stats |-> NoStats, all_items |-> <<>>, seen_links |-> {}, outcome |-> "none"]

\* C1 (isolation): at every point of the run, the collection, the seen links
\* and the counters used_sources and skipped_stale are those of a run over
\* the locators taken so far with the ones whose fetch raised left out, and
\* errors is larger than in that run by exactly the number of locators whose
\* fetch raised; a fetch that raises leaves the run in the loop, and the
\* list that is sorted, capped and written is the one that run gives.
C1_Isolation ==
    LET alone == RunOver(FreshRun, SelectSeq(Taken, FetchOk))
    IN  /\ Emitted => pos = Len(feeds)
        /\ outcome = "fetch-error" => pc = "loop" \/ Emitted
        /\ stats.used_sources = alone.stats.used_sources
        /\ stats.skipped_stale = alone.stats.skipped_stale
        /\ stats.errors = alone.stats.errors + Count(Taken, FetchRaises)
        /\ seen_links = alone.seen_links
        /\ pc = "loop" => all_items = alone.all_items
        /\ Emitted =>
              /\ stats.items_before_dedup = Len(alone.all_items)
              /\ all_items = GlobalCap(SortByDateDesc(alone.all_items), TOTAL_LIMIT)
        /\ pc = "done" => news = all_items

\* The scenario of the specification: A gives two fresh complete entries and
\* B raises.
C1_Witness ==
    /\ pc = "done"
    /\ feeds = << <<"A">>, <<"B">> >>
    /\ now_utc = NowSample
    /\ STALE_DAYS = 30 /\ PER_FEED_LIMIT = 30 /\ TOTAL_LIMIT = 200
    /\ stats.used_sources = 1 /\ stats.errors = 1 /\ stats.skipped_stale = 0
    /\ Len(news) = 2

\* C10 (counter partition): a pass of the loop adds one to exactly one of
\* used_sources, skipped_stale and errors and changes no other counter, no
\* step lowers a counter, the three add up to the number of locators taken,
\* and to total_sources, the length of the locator list, once the loop is
\* over.
C10_CounterPartition ==
    [][ LET sum(st) == st.used_sources + st.skipped_stale + st.errors
            up == {c \in {"used_sources", "skipped_stale", "errors"} : stats'[c] = stats[c] + 1}
        IN  /\ sum(stats) = pos
            /\ sum(stats') = pos'
            /\ \A c \in {"used_sources", "skipped_stale", "errors"} : stats'[c] >= stats[c]
            /\ pos' = pos + 1 => Cardinality(up) = 1
            /\ pc' \in {"done", "emit-failed"} =>
                  /\ sum(stats') = stats'.total_sources
                  /\ stats'.total_sources = Len(feeds)
      ]_vars

\* A finished run over two locators, one stale and one failing.
C10_Witness ==
    /\ pc = "done"
    /\ Len(feeds) = 2
    /\ stats.skipped_stale = 1 /\ stats.errors = 1 /\ stats.used_sources = 0

\* The dates that resolve among the entries of a source.
ResolvedDates(entries) ==
    {pick_date(entries[i]) : i \in 1..Len(entries)} \ {NoDate}

\* d is strictly earlier than now - days, to the microsecond.
BeforeCutoff(d, now, days) ==
    \/ Ordinal(d) < Ordinal(now) - days
    \/ /\ Ordinal(d) = Ordinal(now) - days
       /\ \/ SecondOfDay(d) < SecondOfDay(now)
          \/ SecondOfDay(d) = SecondOfDay(now) /\ d[7] < now[7]

\* The staleness rule as the specification words it: no entry, no resolvable
\* date, or every resolvable date strictly before now - days.
StaleBySpec(entries, now, days) ==
    \/ entries = <<>>
    \/ ResolvedDates(entries) = {}
    \/ \A d \in ResolvedDates(entries) : BeforeCutoff(d, now, days)

\* C3 (staleness): a source that was read is skipped as stale exactly when
\* the rule above holds of all the entries it returned; a stale source leaves
\* the collection and the seen links as they were, adds one to skipped_stale
\* and changes neither errors nor used_sources; a source that is not stale
\* leaves skipped_stale as it was.
C3_Staleness ==
    [][ (pos' = pos + 1 /\ FetchOk(feeds[pos + 1])) =>
            IF StaleBySpec(Web(feeds[pos + 1]).entries, now_utc, STALE_DAYS)
            THEN /\ outcome' = "stale"
                 /\ all_items' = all_items
                 /\ seen_links' = seen_links
                 /\ stats' = [stats EXCEPT !.skipped_stale = @ + 1]
            ELSE /\ outcome' # "stale"
                 /\ stats'.skipped_stale = stats.skipped_stale
      ]_vars

\* The clock stands one microsecond after the whole second: A, whose latest
\* entry is 30 days before that second, is stale by a microsecond; H is
\* fresh by its second entry although the cap keeps only the first.
C3_Witness ==
    /\ pos = 2
    /\ feeds = << <<"A">>, <<"H">> >>
    /\ now_utc = NowSampleLate
    /\ STALE_DAYS = 30 /\ PER_FEED_LIMIT = 1
    /\ stats.skipped_stale = 1 /\ stats.used_sources = 1
    /\ Len(all_items) = 1

Min(a, b) == IF a < b THEN a ELSE b

\* No two items of the list have links that are equal once lowercased.
UniqueLinks(list) ==
    \A m, n \in 1..Len(list) : m # n => Lower(list[m].link) # Lower(list[n].link)

\* An entry whose link or title is a truthy non-string raises in the loop.
\* (Web serves no entry whose summary is one.)
Faulty(e) == FieldRaises(e.link) \/ FieldRaises(e.title)

\* The entries of the i-th locator the inner loop handles without raising:
\* none if the fetch raised or the source is stale, else those within the
\* per-feed cap that come before the first faulty one.
Reached(i) ==
    LET feed == Web(feeds[i])
    IN  IF feed.raised \/ StaleBySpec(feed.entries, now_utc, STALE_DAYS) THEN {}
        ELSE {j \in 1..Len(Take(feed.entries, PER_FEED_LIMIT)) :
                 \A h \in 1..j : ~Faulty(feed.entries[h])}

EntryAt(o) == Web(feeds[o[1]]).entries[o[2]]
LinkAt(o) == Strip(FieldText(EntryAt(o).link))
TitleAt(o) == Strip(FieldText(EntryAt(o).title))
KeyAt(o) == Lower(LinkAt(o))

\* The handled entries that carry a link, as <<locator index, entry index>>.
Occurrences ==
    {o \in UNION {{<<i, j>> : j \in Reached(i)} : i \in 1..pos} : LinkAt(o) # <<>>}

\* Those that also carry a title.
CompleteOccurrences == {o \in Occurrences : TitleAt(o) # <<>>}

Earlier(o, p) == o[1] < p[1] \/ (o[1] = p[1] /\ o[2] <= p[2])
FirstOf(S) == CHOOSE o \in S : \A p \in S : Earlier(o, p)

\* The title the feed of a locator carries: the default for a feed without
\* one.
TitleOf(url) == IF Web(url).title = Absent THEN Str(DefaultSource) ELSE Web(url).title

\* The item is the one built from the entry at o, with its source's title.
BuiltFrom(item, o) ==
    /\ item.link = LinkAt(o)
    /\ item.title = TitleAt(o)
    /\ item.date = date_to_str(pick_date(EntryAt(o)))
    /\ item.source = TitleOf(feeds[o[1]])

WithKey(list, key) == {n \in 1..Len(list) : Lower(list[n].link) = key}

\* The items kept for the links of the occurrences S: one item for each
\* link, built from the first occurrence of that link in S.
OneItemEach(list, S) ==
    \A o \in S :
        LET same == {p \in S : KeyAt(p) = KeyAt(o)}
        IN  /\ Cardinality(WithKey(list, KeyAt(o))) = 1
            /\ \A n \in WithKey(list, KeyAt(o)) : BuiltFrom(list[n], FirstOf(same))

\* C2 as claimed: no two items share a lowercased link, and a link that
\* occurs in the entries handled so far has exactly one item, in the
\* collection and in the emitted list, built from the entry handled first.
C2_AsClaimed ==
    /\ UniqueLinks(all_items)
    /\ UniqueLinks(news)
    /\ pc = "loop" => OneItemEach(all_items, Occurrences)
    /\ pc = "done" => OneItemEach(news, Occurrences)

\* C2 (dedup), amended: no two items share a lowercased link, at any point
\* and in the emitted list; the seen links are the lowercased links of the
\* collection; a link has exactly one item in the collection when it occurs
\* in a handled entry that also has a title, and none otherwise; the item is
\* built from the first such entry and carries that source's title. The
\* emitted list holds at most one item for a link, that same item, and the
\* count taken before the global cap is the number of such links.
C2_Dedup ==
    LET keys == {KeyAt(o) : o \in CompleteOccurrences}
    IN  /\ UniqueLinks(all_items)
        /\ UniqueLinks(news)
        /\ seen_links = keys
        /\ pc = "loop" =>
              /\ OneItemEach(all_items, CompleteOccurrences)
              /\ \A n \in 1..Len(all_items) : Lower(all_items[n].link) \in keys
        /\ Emitted => stats.items_before_dedup = Cardinality(keys)
        /\ pc = "done" =>
              \A n \in 1..Len(news) :
                  /\ Lower(news[n].link) \in keys
                  /\ BuiltFrom(news[n],
                               FirstOf({o \in CompleteOccurrences :
                                           KeyAt(o) = Lower(news[n].link)}))

\* F serves the link " AÉ" and then A serves "aé": the item of F is kept,
\* with the default source title.
C2_Witness ==
    /\ pc = "loop" /\ pos = 2
    /\ feeds = << <<"F">>, <<"A">> >>
    /\ Len(all_items) = 3
    /\ all_items[1].link = <<"A", "U+00C9">>
    /\ all_items[1].source = Str(DefaultSource)
    /\ seen_links = {<<"a", "U+00E9">>, <<"b">>, <<"c">>}

\* The items a pass appended to the collection.
Added == SubSeq(all_items', Len(all_items) + 1, Len(all_items'))

\* The item is made from the entry e of a source with this title.
MadeFrom(item, e, source) ==
    /\ item.link = Strip(FieldText(e.link))
    /\ item.title = Strip(FieldText(e.title))
    /\ item.date = date_to_str(pick_date(e))
    /\ item.source = source

\* The items are made, in order, from some of the first n entries.
FromHead(items, entries, source, n) ==
    \E f \in [1..Len(items) -> 1..Min(n, Len(entries))] :
        /\ \A k, l \in 1..Len(items) : k < l => f[k] < f[l]
        /\ \A k \in 1..Len(items) : MadeFrom(items[k], entries[f[k]], source)

PassedFresh == pos' = pos + 1 /\ outcome' \in {"used", "entry-error"}

CapHolds(n) ==
    /\ SubSeq(all_items', 1, Len(all_items)) = all_items
    /\ Len(Added) <= n
    /\ FromHead(Added, Web(feeds[pos + 1]).entries, TitleOf(feeds[pos + 1]), n)

\* C4 as claimed: whatever PER_FEED_LIMIT is, a fresh source adds at most
\* PER_FEED_LIMIT items, made in order from its first PER_FEED_LIMIT entries.
C4_AsClaimed == [][PassedFresh => CapHolds(PER_FEED_LIMIT)]_vars

\* C4 (per-source cap), amended: for a PER_FEED_LIMIT that is not negative, a
\* fresh source adds at most PER_FEED_LIMIT items, made in order from its
\* first PER_FEED_LIMIT raw entries; for a negative PER_FEED_LIMIT = -n the
\* items are made in order from the raw entries without the last n.
C4_PerSourceCap ==
    [][ PassedFresh =>
            IF PER_FEED_LIMIT >= 0
            THEN CapHolds(PER_FEED_LIMIT)
            ELSE CapHolds(Len(Web(feeds[pos + 1]).entries) + PER_FEED_LIMIT)
      ]_vars

\* J serves four entries; with a cap of 2 the second is a duplicate of the
\* first and the third and fourth do not take its place.
C4_Witness ==
    /\ pos = 1 /\ outcome = "used"
    /\ feeds[1] = <<"J">>
    /\ PER_FEED_LIMIT = 2
    /\ Len(all_items) = 1

Range(q) == {q[n] : n \in 1..Len(q)}

\* x is ranked before y: a greater date, or the same date and an earlier
\* place in the collection acc.
RankedBefore(x, y, acc) ==
    \/ LexLess(y.date, x.date)
    \/ /\ x.date = y.date
       /\ (CHOOSE n \in 1..Len(acc) : acc[n] = x) < (CHOOSE n \in 1..Len(acc) : acc[n] = y)

\* C5 as claimed (global ranking and cap): the list the run goes on to write
\* holds items of the collection, each once, by descending date string with
\* equal dates in the order of the collection and empty dates last, and
\* every item left out ranks after every item kept; when the collection
\* holds more than a positive TOTAL_LIMIT items the list is the first
\* TOTAL_LIMIT of them, and otherwise, for a TOTAL_LIMIT that is zero or
\* negative as well, it is the whole sorted collection; a run that is done
\* has written that list, and a run whose write fails has written a head of
\* it.
C5_RankingAndCap ==
    [][ (pc = "loop" /\ pc' \in {"done", "emit-failed"}) =>
          /\ pc' = "done" => news' = all_items'
          /\ pc' = "emit-failed" =>
                \E k \in 0..(Len(all_items') - 1) : news' = SubSeq(all_items', 1, k)
          /\ Range(all_items') \subseteq Range(all_items)
          /\ \A m, n \in 1..Len(all_items') :
                m < n => /\ RankedBefore(all_items'[m], all_items'[n], all_items)
                         /\ (all_items'[m].date = <<>> => all_items'[n].date = <<>>)
          /\ \A x \in Range(all_items) \ Range(all_items') :
                \A m \in 1..Len(all_items') : RankedBefore(all_items'[m], x, all_items)
          /\ Len(all_items') = IF TOTAL_LIMIT > 0
                               THEN Min(TOTAL_LIMIT, Len(all_items))
                               ELSE Len(all_items)
      ]_vars

\* C9 as claimed: items_before_dedup is the size of the collection after the
\* per-entry dedup, and count, the length of the emitted list, is
\* min(items_before_dedup, TOTAL_LIMIT) for a positive TOTAL_LIMIT and
\* items_before_dedup for a TOTAL_LIMIT that is zero or negative.
C9_CountRelation ==
    pc = "done" =>
        /\ stats.items_before_dedup = Cardinality(seen_links)
        /\ meta.stats.items_before_dedup = stats.items_before_dedup
        /\ meta.count = Len(news)
        /\ meta.count = IF TOTAL_LIMIT > 0
                        THEN Min(stats.items_before_dedup, TOTAL_LIMIT)
                        ELSE stats.items_before_dedup

\* C6 as claimed (the run always completes): whatever the locators give, a
\* run that has its locator list leaves the loop only by the emit step,
\* with every locator taken and the item list and the meta document
\* written.
C6_Completes ==
    [][ pc = "loop" =>
            \/ pc' = "loop"
            \/ /\ pc' = "done"
               /\ pos' = Len(feeds)
               /\ meta' # NoMeta
               /\ meta'.count = Len(news')
      ]_vars

\* ------------------------------------------------- the helpers on their own

\* The state of a process that applies one helper to arg and stores the
\* result in ret; the run's variables rest at the defaults of lines 16-18.
HelperInit(at) ==
    /\ STALE_DAYS = 30 /\ PER_FEED_LIMIT = 30 /\ TOTAL_LIMIT = 200
    /\ RunInit(<<>>, NowSample, MinusDays(NowSample, 30), at)
    /\ ret = <<>>

HelperUnchanged ==
    UNCHANGED <<STALE_DAYS, PER_FEED_LIMIT, TOTAL_LIMIT, feeds, now_utc, stale_cutoff,
                stats, all_items, seen_links, pos, outcome, news, meta, arg>>

\* Summary texts are built from at most MaxChunks pieces.
MaxChunks == 3

LongRun == [i \in 1..139 |-> "x"]

SummaryChunks ==
    {<<"x">>, <<" ">>, <<"\n">>, <<"\r">>, <<"U+00A0">>,
     <<"<", "p", ">">>, <<"<", "/", "p", ">">>, <<"<", "b", "r", ">">>,
     <<"<", "b", "r", "/", ">">>, <<"<", "b", "r", " ", "/", ">">>,
     <<"<", "b", "r">>, <<"/", ">">>, LongRun}

SummaryTexts == {Concat(pieces) : pieces \in SeqsUpTo(SummaryChunks, MaxChunks)}

SummaryInit == HelperInit("summary") /\ arg \in SummaryTexts

CallCleanSummary ==
    /\ pc = "summary"
    /\ ret' = clean_summary(arg)
    /\ pc' = "summary-done"
    /\ HelperUnchanged

SpecSummary == SummaryInit /\ [][CallCleanSummary]_vars

\* C7 (summary cleaning): clean_summary gives "" for an empty text and for a
\* text that is empty once newlines, carriage returns and the five tags are
\* replaced by spaces and whitespace is collapsed and trimmed; otherwise the
\* first 140 characters of the cleaned text and one ellipsis, so at most
\* 141 characters, a cleaned text under 140 characters whole. The result
\* has no whitespace but single spaces, and none at its start.
C7_SummaryCleaning ==
    pc = "summary-done" =>
        \E cleaned \in {CleanText(arg)} :
            /\ (arg = <<>> \/ cleaned = <<>>) => ret = <<>>
            /\ cleaned # <<>> =>
                  /\ ret = SubSeq(cleaned, 1, Min(SummaryLimit, Len(cleaned))) \o <<Ellipsis>>
                  /\ Len(ret) <= SummaryLimit + 1
                  /\ Len(cleaned) < SummaryLimit => ret = cleaned \o <<Ellipsis>>
                  /\ Cardinality({i \in 1..Len(ret) : ret[i] = Ellipsis}) = 1
            /\ \A i \in 1..Len(ret) : IsSpace(ret[i]) => ret[i] = " "
            /\ \A i \in 1..(Len(ret) - 1) : ~(ret[i] = " " /\ ret[i + 1] = " ")
            /\ ret # <<>> => ret[1] # " "

\* A text of 139 characters, a no-break space and two more characters is
\* cut: the result is 140 characters of the cleaned text, the last of them
\* the space the no-break space became, and the ellipsis.
C7_Witness ==
    /\ pc = "summary-done"
    /\ arg = LongRun \o <<"U+00A0">> \o <<"x">>
    /\ Len(ret) = SummaryLimit + 1
    /\ ret[SummaryLimit] = " "
    /\ ret[SummaryLimit + 1] = Ellipsis

\* The values of the date fields of an entry: absent, None, well formed, and
\* malformed in the ways the two loops of pick_date guard against.
PublishedParsedValues ==
    {Absent, Tup(<<2024, 3, 10, 9, 30, 0, 6, 70, 0>>), Tup(<<2024, 2, 30, 0, 0, 0>>)}
UpdatedParsedValues ==
    {None, Tup(<<2024, 3, 11, 0, 0, 0>>), Tup(<<2024, 3, 11, 23, 59, 60>>),
     List(<<Num(2024), Num(3), Num(13), Num(1)>>)}
CreatedParsedValues ==
    {Absent, Tup(<<2024, 3, 12>>), Tup(<<>>), Obj, Tup(<<999, 1, 2, 3, 4, 5>>),
     List(<<Num(2024), Str(<<"3">>), Num(14)>>)}
PublishedValues ==
    {Absent, Str(IsoText), Str(RfcText), Str(WeekText \o <<"T", "1", "0">>)}
\* 2020-W53-7 is Sunday 2021-01-03.
UpdatedValues ==
    {None, Str(<<"2", "0", "2", "4", "-", "0", "3", "-", "1", "6">>),
     Str(<<"2", "0", "2", "4", "-", "3", "-", "1", "6">>),
     Str(<<"2", "0", "2", "0", "-", "W", "5", "3", "-", "7">>)}
\* 2024 has no week 53.
CreatedValues ==
    {Absent, Str(<<"2", "0", "2", "4", "-", "0", "3", "-", "1", "7", " ", "x">>),
     Str(<<"2", "0", "2", "4", "-", "0", "2", "-", "3", "0", "T", "0">>),
     Str(<<"2", "0", "2", "4", "-", "W", "5", "3", "-", "1", "x">>),
     Str(OldYearText)}

DateEntries ==
    {[BlankEntry EXCEPT !.published_parsed = pp, !.updated_parsed = up,
                        !.created_parsed = cp, !.published = p, !.updated = u,
                        !.created = c]
     : pp \in PublishedParsedValues, up \in UpdatedParsedValues,
       cp \in CreatedParsedValues, p \in PublishedValues, u \in UpdatedValues,
       c \in CreatedValues}

DateInit == HelperInit("date") /\ arg \in DateEntries

\* Line 150: date_to_str(pick_date(e))
CallPickDate ==
    /\ pc = "date"
    /\ ret' = [dt |-> pick_date(arg), date |-> date_to_str(pick_date(arg))]
    /\ pc' = "date-done"
    /\ HelperUnchanged

SpecDate == DateInit /\ [][CallPickDate]_vars

Least(S) == CHOOSE i \in S : \A j \in S : i <= j

\* The structured fields of the entry that are present.
Present(e) == {i \in 1..Len(ParsedKeys) : Truthy(e[ParsedKeys[i]])}
\* The structured fields that are present and make a datetime.
StructuredGood(e) == {i \in Present(e) : StructuredDate(e[ParsedKeys[i]]) # NoDate}
\* The text fields whose first ten characters are an ISO date, in the
\* calendar form or in the week form.
TextGood(e) == {i \in 1..Len(TextKeys) : TextDate(e[TextKeys[i]]) # NoDate}

\* The date YYYY-MM-DD the first ten characters of a text spell, NoDate
\* when they spell none.
CalendarText(x) ==
    IF x.kind = "str" /\ Len(x.val) >= 10 THEN ParseCalendarDate(Take(x.val, 10)) ELSE NoDate
\* The text fields whose first ten characters are a date YYYY-MM-DD.
CalendarGood(e) == {i \in 1..Len(TextKeys) : CalendarText(e[TextKeys[i]]) # NoDate}

\* The date string spells the day of the datetime: year, month and day,
\* the month and the day in two digits, the year in four from the year 1000
\* on and in fewer before.
Formatted(r) ==
    IF r.dt = NoDate THEN r.date = <<>>
    ELSE /\ Len(r.date) <= 10
         /\ r.dt[1] >= 1000 <=> Len(r.date) = 10
         /\ ParseCalendarDate([i \in 1..(10 - Len(r.date)) |-> "0"] \o r.date)
              = <<r.dt[1], r.dt[2], r.dt[3], 0, 0, 0, 0>>

\* The example of the specification: no structured date, text published
\* "2024-03-15T10:00:00Z".
IsExample(e) == Present(e) = {} /\ e.published = Str(IsoText)
ExampleDate == <<"2", "0", "2", "4", "-", "0", "3", "-", "1", "5">>

\* C8 as claimed: the text fields are consulted only if no structured field
\* is present, and a text field gives a date only if its first ten
\* characters are a date YYYY-MM-DD; so an entry whose structured fields are
\* present but all unparseable has no date, and neither has one whose text
\* spells a week date.
C8_AsClaimed ==
    pc = "date-done" =>
        /\ StructuredGood(arg) # {} =>
              ret.dt = StructuredDate(arg[ParsedKeys[Least(StructuredGood(arg))]])
        /\ (Present(arg) = {} /\ CalendarGood(arg) # {}) =>
              ret.dt = CalendarText(arg[TextKeys[Least(CalendarGood(arg))]])
        /\ (StructuredGood(arg) = {} /\ (Present(arg) # {} \/ CalendarGood(arg) = {})) =>
              ret.dt = NoDate
        /\ Formatted(ret)

\* C8 (date resolution), amended: pick_date returns the date of the first
\* structured field, in the order published, updated, created, that is
\* present and parseable; when no structured field gives a date (each is
\* absent or unparseable) it returns the date, at midnight, of the first
\* text field whose first ten characters are an ISO date, YYYY-MM-DD or the
\* week date YYYY-Www-D; otherwise the date is unresolved and the date
\* string is empty. The date string spells year, month and day, and the
\* specification's example resolves to "2024-03-15".
C8_DateResolution ==
    pc = "date-done" =>
        /\ StructuredGood(arg) # {} =>
              ret.dt = StructuredDate(arg[ParsedKeys[Least(StructuredGood(arg))]])
        /\ (StructuredGood(arg) = {} /\ TextGood(arg) # {}) =>
              /\ ret.dt = TextDate(arg[TextKeys[Least(TextGood(arg))]])
              /\ <<ret.dt[4], ret.dt[5], ret.dt[6], ret.dt[7]>> = <<0, 0, 0, 0>>
        /\ (StructuredGood(arg) = {} /\ TextGood(arg) = {}) => ret.dt = NoDate
        /\ Formatted(ret)
        /\ IsExample(arg) => ret.date = ExampleDate

\* The published time is 30 February, no other structured field is there,
\* the text published is not ISO and the text updated is the week date
\* 2020-W53-7: the date is the text's, 2021-01-03.
C8_Witness ==
    /\ pc = "date-done"
    /\ arg.published_parsed = Tup(<<2024, 2, 30, 0, 0, 0>>)
    /\ arg.updated_parsed = None /\ arg.created_parsed = Absent
    /\ arg.published = Str(RfcText)
    /\ arg.updated = Str(<<"2", "0", "2", "0", "-", "W", "5", "3", "-", "7">>)
    /\ ret.date = <<"2", "0", "2", "1", "-", "0", "1", "-", "0", "3">>

====
